---- MODULE Spec2Model ----
(***************************************************************************)
(* Model of src/bot.py: the Slack mention handler with event               *)
(* de-duplication (processed_events), the registry of in-flight tasks       *)
(* (processing_tasks), the response de-duplication cache (sent_responses)   *)
(* and the coroutine process_mention_async.                                 *)
(*                                                                         *)
(* The program runs on one asyncio event loop: code between two awaits is   *)
(* atomic, and every await is a point where other handlers and tasks run.   *)
(* Every action below is the code from one resumption to the next await.    *)
(***************************************************************************)
EXTENDS Integers, Sequences, FiniteSets, TLC

(***************************************************************************)
(* Bounds of the model.                                                    *)
(***************************************************************************)
\* Number of tasks started in a behaviour of Spec.
MaxRuns == 1
\* Number of tasks started in a behaviour of BurstSpec and BurstSpecNoClear.
MaxBurst == 4
\* Number of tasks started in a behaviour of ClockSpec.
MaxClockRuns == 2
\* Last value of the clock time.time() in ClockSpec and SaySpec.
MaxTime == 3
\* Number of tasks started in a behaviour of SaySpec.
MaxSayRuns == 3

(***************************************************************************)
(* Program constants.  Time is counted in ticks of 30 seconds, the cache   *)
(* sizes are scaled down so that the eviction and the cleanup happen        *)
(* within the bounds (the source values are given on each line).            *)
(***************************************************************************)
\* src/bot.py:33   MAX_CACHE_SIZE = 1000 (scaled: the smallest even capacity)
MAX_CACHE_SIZE == 2
\* src/bot.py:37   RESPONSE_CACHE_TTL = 600 seconds (scaled, kept longer than
\*                 the 30 second window)
RESPONSE_CACHE_TTL == 2
\* src/bot.py:92   "if time_diff < 30": 30 seconds are one tick
RESEND_WINDOW == 1
\* src/bot.py:105  "if len(sent_responses) > 50" (scaled)
CLEAN_THRESHOLD == 1

(***************************************************************************)
(* Texts sent to the channel: the string literals of process_mention_async *)
(* (lines 136, 167, 187 and 202, 218, 234, 255), without the emoji that     *)
(* lines 136 and 167 put in front.                                          *)
(***************************************************************************)
initial_message  == "Processing your request... please hold on a moment."
default_reply    == "Request processed successfully"
generic_response == "Sorry, I couldn't process the request at the moment."
timeout_response == "Sorry, the request timed out. Please try again."
connect_response == "Sorry, I couldn't connect to the processing server."
unexpected_response == "Sorry, an unexpected error occurred."

\* What the upstream agent puts in its answer (src/agnoagent.py AgentResponse).
upstream_reply == "Booked."
upstream_error == "room conflict"
exception_text == "Expecting value: line 1 column 1 (char 0)"

ApologyTexts ==
    {generic_response, timeout_response, connect_response, unexpected_response}

None == "None"

(***************************************************************************)
(* Inbound events: the "event" object of an app_mention webhook body.  A   *)
(* field the body does not carry is Absent.                                 *)
(***************************************************************************)
Absent == "<absent>"

Events ==
    { [ts |-> "t1", channel |-> "C", user |-> "U",    text |-> "book"],
      [ts |-> "t2", channel |-> "C", user |-> Absent, text |-> "book"],
      [ts |-> "t2", channel |-> "C", user |-> Absent, text |-> "cancel"] }

\* dict.get(field, "")
get(event, field) == IF event[field] = Absent THEN "" ELSE event[field]

\* hashlib.md5(...).hexdigest()[:8]: a fingerprint of its input, taken to be
\* free of collisions on the inputs of the model.
md5_8(data) == <<"md5", data>>

\* create_event_key: f"{ts}_{channel}_{content_hash}"
create_event_key(event) ==
    << get(event, "ts"), get(event, "channel"),
       md5_8(<< get(event, "ts"), get(event, "channel"),
                get(event, "user"), get(event, "text") >>) >>

\* The key the finally block of process_mention_async pops:
\* f"{event_data.get('ts')}_{event_data.get('channel')}".  It has two parts
\* where create_event_key has three: a Slack ts (digits and a dot) and a
\* channel id (letters and digits) hold no "_", so it equals no event key.
cleanup_event_key(event) == << event.ts, event.channel >>

\* create_response_key: f"{event_ts}_{channel}_{user}_{response_hash}"
create_response_key(event, response_text) ==
    << get(event, "ts"), get(event, "channel"), get(event, "user"),
       md5_8(response_text) >>

(***************************************************************************)
(* Outcomes of the upstream call  session.post(MCP_URL, ..., timeout=30)   *)
(* followed by response.json().                                             *)
(***************************************************************************)
UpstreamOutcomes ==
    { "success",            \* 200, {"success": true, "response": "Booked."}
      "success_no_text",    \* 200, {"success": true} without "response"
      "business_error",     \* 200, {"success": false, "error": "room conflict"}
      "non_200",            \* any other HTTP status
      "timeout",            \* asyncio.TimeoutError after 30 seconds
      "connection_refused", \* aiohttp.ClientConnectorError
      "dns_failure",        \* aiohttp.ClientConnectorError
      "bad_content_type",   \* 200, body is not JSON: aiohttp.ContentTypeError
      "bad_json" }          \* 200, JSON cannot be decoded: json.JSONDecodeError

\* The exceptions that are subclasses of aiohttp.ClientError.
ClientErrors == {"connection_refused", "dns_failure", "bad_content_type"}

\* Outcomes that raise an exception no inner handler catches.
RaisesUnexpected(outcome) == outcome = "bad_json"

VARIABLES
    processed_events,   \* set of event keys
    processing_tasks,   \* event key -> request_id
    sent_responses,     \* response key -> time of the send
    tasks,              \* the tasks created by asyncio.create_task, in order
    now,                \* time.time()
    last_delivery       \* what the handler printed for the last webhook

vars == << processed_events, processing_tasks, sent_responses, tasks, now,
           last_delivery >>

(***************************************************************************)
(* A task: one call of process_mention_async(event, say, client, logger,   *)
(* request_id).  pc is the await the coroutine is suspended at.             *)
(*   initial_message_ts  the local variable of that name (None or the ts    *)
(*                       of the posted placeholder)                         *)
(*   message, t0         inside safe_say and chat_update: the text being    *)
(*                       sent, and safe_say's local current_time, read      *)
(*                       before the send                                    *)
(* The other fields record what the task has done so far:                   *)
(*   outcome   how the upstream call ended        final  the final text     *)
(*   raised    the outer "except Exception" ran   calls  upstream calls     *)
(*   log       the Slack calls of the task, in order: op is "post"          *)
(*             (chat_postMessage), "update" (chat_update) or "say"          *)
(*             (safe_say); result is "ok", "failed" (the call raised) or    *)
(*             "blocked" (safe_say returned False without sending); at is   *)
(*             the time safe_say records for a message it has sent          *)
(***************************************************************************)
PlaceholderTs == "placeholder_ts"

NewTask(event, request_id) ==
    [ request_id |-> request_id, event |-> event, pc |-> "created",
      initial_message_ts |-> None, message |-> None, t0 |-> 0,
      outcome |-> None, final |-> None, raised |-> FALSE, calls |-> 0,
      log |-> << >> ]

Logged(t, op, text, result, at) ==
    [t EXCEPT !.log = Append(@, [op |-> op, text |-> text,
                                 result |-> result, at |-> at])]

\* The line the handler prints about the event (lines 302, 307 and 320).
Printed(event_key, line) == [event_key |-> event_key, line |-> line]

Init ==
    /\ processed_events = {}
    /\ processing_tasks = [k \in {} |-> 0]
    /\ sent_responses = [k \in {} |-> 0]
    /\ tasks = << >>
    /\ now = 0
    /\ last_delivery = Printed(<< >>, None)

(***************************************************************************)
(* Dictionaries.                                                           *)
(***************************************************************************)
\* d[key] = value
put(d, key, value) ==
    [k \in DOMAIN d \cup {key} |-> IF k = key THEN value ELSE d[k]]

\* d.pop(key, None)
pop(d, key) == [k \in DOMAIN d \ {key} |-> d[k]]

(***************************************************************************)
(* handle_app_mention_events                                               *)
(***************************************************************************)
\* "if event_key in processed_events: return"
IsDuplicateEvent(events, event_key) == event_key \in events

\* Mutant: the check of the task registry is left out.
NeverAlreadyProcessing(registry, event_key) == FALSE

\* "if event_key in processing_tasks: return"
IsAlreadyProcessing(registry, event_key) == event_key \in DOMAIN registry

\* Mutant: the cleanup of old events is left out.
no_old_events(events) == {{}}

\* "old_events = list(processed_events)[:MAX_CACHE_SIZE // 2]": the first
\* MAX_CACHE_SIZE // 2 elements in the iteration order of a Python set of
\* strings.  That order follows the (per process randomised) string hashes,
\* not the insertion order: any MAX_CACHE_SIZE // 2 elements can come first.
old_events_choices(events) ==
    IF Cardinality(events) > MAX_CACHE_SIZE
    THEN {old \in SUBSET events : Cardinality(old) = MAX_CACHE_SIZE \div 2}
    ELSE {{}}

\* "for old_event in old_events: processed_events.discard(old_event)"
discard_all(events, old_events) == events \ old_events

\* Mutant: a delivery whose key is already claimed takes the claim over.
handle_takes_claim_over(event) ==
    LET event_key == create_event_key(event)
        request_id == Len(tasks) + 1
    IN  IF IsDuplicateEvent(processed_events, event_key)
        THEN /\ last_delivery' = Printed(event_key, "DUPLICATE EVENT BLOCKED")
             /\ UNCHANGED << processed_events, processing_tasks,
                             sent_responses, tasks, now >>
        ELSE IF IsAlreadyProcessing(processing_tasks, event_key)
        THEN /\ last_delivery' = Printed(event_key, "Already processing")
             /\ processing_tasks' = put(processing_tasks, event_key, request_id)
             /\ UNCHANGED << processed_events, sent_responses, tasks, now >>
        ELSE /\ last_delivery' = Printed(event_key, "Processing new event")
             /\ \E old_events \in
                    old_events_choices(processed_events \cup {event_key}) :
                    processed_events' =
                        discard_all(processed_events \cup {event_key},
                                    old_events)
             /\ processing_tasks' = put(processing_tasks, event_key, request_id)
             /\ tasks' = Append(tasks, NewTask(event, request_id))
             /\ UNCHANGED << sent_responses, now >>

handle_app_mention_events(event) ==
    LET event_key == create_event_key(event)
        request_id == Len(tasks) + 1
    IN  IF IsDuplicateEvent(processed_events, event_key)
        THEN /\ last_delivery' = Printed(event_key, "DUPLICATE EVENT BLOCKED")
             /\ UNCHANGED << processed_events, processing_tasks,
                             sent_responses, tasks, now >>
        ELSE IF IsAlreadyProcessing(processing_tasks, event_key)
        THEN /\ last_delivery' = Printed(event_key, "Already processing")
             /\ UNCHANGED << processed_events, processing_tasks,
                             sent_responses, tasks, now >>
        ELSE /\ last_delivery' = Printed(event_key, "Processing new event")
             /\ \E old_events \in
                    old_events_choices(processed_events \cup {event_key}) :
                    processed_events' =
                        discard_all(processed_events \cup {event_key},
                                    old_events)
             /\ processing_tasks' = put(processing_tasks, event_key, request_id)
             /\ tasks' = Append(tasks, NewTask(event, request_id))
             /\ UNCHANGED << sent_responses, now >>

(***************************************************************************)
(* safe_say, in its two halves around "await say_func(message)".           *)
(***************************************************************************)
\* "if response_key in sent_responses: ... if time_diff < 30: return False"
IsBlocked(responses, response_key, current_time) ==
    /\ response_key \in DOMAIN responses
    /\ current_time - responses[response_key] < RESEND_WINDOW

\* Mutant: the cleanup empties the cache instead of dropping what expired.
clean_all_responses(responses, current_time) == [key \in {} |-> 0]

\* clean_old_responses
clean_old_responses(responses, current_time) ==
    LET expired_keys ==
            {key \in DOMAIN responses :
                current_time - responses[key] > RESPONSE_CACHE_TTL}
    IN  [key \in DOMAIN responses \ expired_keys |-> responses[key]]

\* "sent_responses[response_key] = current_time" and the periodic cleanup;
\* clean_time is the time.time() clean_old_responses reads.
record_response(responses, response_key, current_time, clean_time) ==
    LET recorded == put(responses, response_key, current_time)
    IN  IF Cardinality(DOMAIN recorded) > CLEAN_THRESHOLD
        THEN clean_old_responses(recorded, clean_time)
        ELSE recorded

(***************************************************************************)
(* process_mention_async                                                   *)
(***************************************************************************)
\* Mutant: the text of the agent is dropped for the fixed default.
reply_of_default(outcome) == default_reply

\* The reply of a successful answer:
\* mcp_response.get("response", "Request processed successfully")
reply_of(outcome) ==
    IF outcome = "success" THEN upstream_reply ELSE default_reply

\* Mutant: the timeout gets the text of the other failures.
response_text_timeout_generic(outcome) ==
    CASE outcome \in {"success", "success_no_text"} -> reply_of(outcome)
      [] outcome \in {"business_error", "non_200", "timeout"} -> generic_response
      [] outcome \in ClientErrors      -> connect_response

\* Mutant: a failed connection gets the text of the other failures.
response_text_connect_generic(outcome) ==
    CASE outcome \in {"success", "success_no_text"} -> reply_of(outcome)
      [] outcome \in {"business_error", "non_200"} -> generic_response
      [] outcome = "timeout"           -> timeout_response
      [] outcome \in ClientErrors      -> generic_response

\* Mutant: the error the agent reports is passed on to the channel.
response_text_error_msg(outcome) ==
    CASE outcome \in {"success", "success_no_text"} -> reply_of(outcome)
      [] outcome = "business_error"    -> upstream_error
      [] outcome = "non_200"           -> generic_response
      [] outcome = "timeout"           -> timeout_response
      [] outcome \in ClientErrors      -> connect_response

\* The final text of each way the upstream call can end inside the try
\* block of lines 158-246: the branches of "if response.status == 200",
\* "if mcp_response.get('success', False)" and the two except clauses.
response_text(outcome) ==
    CASE outcome \in {"success", "success_no_text"} -> reply_of(outcome)
      [] outcome = "business_error"    -> generic_response
      [] outcome = "non_200"           -> generic_response
      [] outcome = "timeout"           -> timeout_response
      [] outcome \in ClientErrors      -> connect_response

\* The finally block: "processing_tasks.pop(event_key, None)" with the key
\* it builds itself.
release(registry, event) == pop(registry, cleanup_event_key(event))

\* The coroutine has returned (after its finally block).
Done(t) == [t EXCEPT !.pc = "done", !.message = None, !.t0 = 0]

\* "await safe_say(say_func, message, ...)" up to its first await: either
\* the duplicate check returns False at once and the caller goes on at pc
\* `after`, or the task is suspended in say_func at pc `saying`.
enter_safe_say(t, message, saying, after) ==
    IF IsBlocked(sent_responses, create_response_key(t.event, message), now)
    THEN LET blocked == Logged(t, "say", message, "blocked", 0)
         IN  IF after = "done" THEN Done(blocked)
             ELSE [blocked EXCEPT !.pc = after]
    ELSE [t EXCEPT !.pc = saying, !.message = message, !.t0 = now]

\* Mutant: without a placeholder to edit the final text is not sent.
deliver_edit_only(t, text) ==
    IF t.initial_message_ts # None /\ get(t.event, "channel") # ""
    THEN [t EXCEPT !.pc = "chat_update", !.final = text, !.message = text]
    ELSE Done([t EXCEPT !.final = text])

\* The delivery of a final text: "if initial_message_ts: await
\* client.chat_update(...)", else safe_say.
deliver(t, text) ==
    IF t.initial_message_ts # None /\ get(t.event, "channel") # ""
    THEN [t EXCEPT !.pc = "chat_update", !.final = text, !.message = text]
    ELSE enter_safe_say([t EXCEPT !.final = text], text, "say_final", "done")

\* Mutant: the outer handler only logs the exception.
on_exception_log_only(t) ==
    Done([t EXCEPT !.raised = TRUE, !.final = unexpected_response])

\* The outer "except Exception" (lines 250-272): the unexpected-error text
\* is delivered the same way.
on_exception(t) == deliver([t EXCEPT !.raised = TRUE], unexpected_response)

\* "session.post(MCP_URL, json=payload, timeout=30)" is issued.
call_upstream(t) == [t EXCEPT !.pc = "upstream", !.calls = @ + 1]

\* The task i becomes t; the finally block runs when t has returned.
Becomes(i, t) ==
    /\ tasks' = [tasks EXCEPT ![i] = t]
    /\ processing_tasks' =
           IF t.pc = "done" THEN release(processing_tasks, t.event)
           ELSE processing_tasks

\* Mutant: the upstream call blocks the event loop, no other task is
\* scheduled while one waits for the agent.
StartWhenLoopFree(i) ==
    /\ tasks[i].pc = "created"
    /\ \A j \in DOMAIN tasks : tasks[j].pc # "upstream"
    /\ IF tasks[i].event.user = Absent \/ tasks[i].event.text = Absent
       THEN Becomes(i, on_exception(tasks[i]))
       ELSE Becomes(i, [tasks[i] EXCEPT !.pc = "users_info"])
    /\ UNCHANGED << processed_events, sent_responses, now, last_delivery >>

\* The task is scheduled: lines 116-125, up to "await client.users_info".
\* event_data["user"] and event_data["text"] raise KeyError when absent.
Start(i) ==
    /\ tasks[i].pc = "created"
    /\ IF tasks[i].event.user = Absent \/ tasks[i].event.text = Absent
       THEN Becomes(i, on_exception(tasks[i]))
       ELSE Becomes(i, [tasks[i] EXCEPT !.pc = "users_info"])
    /\ UNCHANGED << processed_events, sent_responses, now, last_delivery >>

\* users_info returns or raises (the name falls back to the user id): up to
\* "await client.chat_postMessage".
UsersInfoReturns(i) ==
    /\ tasks[i].pc = "users_info"
    /\ Becomes(i, [tasks[i] EXCEPT !.pc = "chat_postMessage"])
    /\ UNCHANGED << processed_events, sent_responses, now, last_delivery >>

\* Mutant: a failed post of the placeholder is not caught where it happens
\* and ends the run in the outer handler.
PostMessageAborts(i, ok) ==
    /\ tasks[i].pc = "chat_postMessage"
    /\ IF ok
       THEN Becomes(i, call_upstream(
                [Logged(tasks[i], "post", initial_message, "ok", 0)
                    EXCEPT !.initial_message_ts = PlaceholderTs]))
       ELSE Becomes(i, on_exception(
                Logged(tasks[i], "post", initial_message, "failed", 0)))
    /\ UNCHANGED << processed_events, sent_responses, now, last_delivery >>

\* chat_postMessage returns the placeholder's ts (ok), or raises and the
\* placeholder goes through safe_say; then the upstream call is issued.
PostMessageReturns(i, ok) ==
    /\ tasks[i].pc = "chat_postMessage"
    /\ IF ok
       THEN Becomes(i, call_upstream(
                [Logged(tasks[i], "post", initial_message, "ok", 0)
                    EXCEPT !.initial_message_ts = PlaceholderTs]))
       ELSE LET t == enter_safe_say(
                         Logged(tasks[i], "post", initial_message, "failed", 0),
                         initial_message, "say_initial", "upstream")
            IN  Becomes(i, IF t.pc = "upstream" THEN call_upstream(t) ELSE t)
    /\ UNCHANGED << processed_events, sent_responses, now, last_delivery >>

\* say_func returns (ok) or raises inside safe_say (lines 98-112).
say_returns(t, ok) ==
    IF ok THEN Logged(t, "say", t.message, "ok", t.t0)
    ELSE Logged(t, "say", t.message, "failed", 0)

\* Mutant: the send is recorded whether or not say_func raised.
responses_after_any_say(t, ok) ==
    record_response(sent_responses,
                    create_response_key(t.event, t.message), t.t0, now)

responses_after_say(t, ok) ==
    IF ok
    THEN record_response(sent_responses,
                         create_response_key(t.event, t.message), t.t0, now)
    ELSE sent_responses

SayInitialReturns(i, ok) ==
    /\ tasks[i].pc = "say_initial"
    /\ Becomes(i, call_upstream(
           [say_returns(tasks[i], ok) EXCEPT !.message = None, !.t0 = 0]))
    /\ sent_responses' = responses_after_say(tasks[i], ok)
    /\ UNCHANGED << processed_events, now, last_delivery >>

\* Mutant: the upstream call has no timeout and the agent never answers.
UpstreamNeverReturns(i, outcome) == FALSE

\* The upstream call ends (lines 159-246): the final text is chosen and its
\* delivery starts.
UpstreamReturns(i, outcome) ==
    /\ tasks[i].pc = "upstream"
    /\ LET t == [tasks[i] EXCEPT !.outcome = outcome]
       IN  IF RaisesUnexpected(outcome)
           THEN Becomes(i, on_exception(t))
           ELSE Becomes(i, deliver(t, response_text(outcome)))
    /\ UNCHANGED << processed_events, sent_responses, now, last_delivery >>

\* Mutant: a failed edit is only logged, the text is not sent again.
ChatUpdateNoFallback(i, ok) ==
    /\ tasks[i].pc = "chat_update"
    /\ Becomes(i, Done(Logged(tasks[i], "update", tasks[i].message,
                               IF ok THEN "ok" ELSE "failed", 0)))
    /\ UNCHANGED << processed_events, sent_responses, now, last_delivery >>

\* chat_update returns (ok), or raises and the text goes through safe_say.
ChatUpdateReturns(i, ok) ==
    /\ tasks[i].pc = "chat_update"
    /\ IF ok
       THEN Becomes(i, Done(Logged(tasks[i], "update", tasks[i].message,
                                   "ok", 0)))
       ELSE Becomes(i, enter_safe_say(
                           Logged(tasks[i], "update", tasks[i].message,
                                  "failed", 0),
                           tasks[i].message, "say_final", "done"))
    /\ UNCHANGED << processed_events, sent_responses, now, last_delivery >>

SayFinalReturns(i, ok) ==
    /\ tasks[i].pc = "say_final"
    /\ Becomes(i, Done(say_returns(tasks[i], ok)))
    /\ sent_responses' = responses_after_say(tasks[i], ok)
    /\ UNCHANGED << processed_events, now, last_delivery >>

(***************************************************************************)
(* POST /clear-cache                                                       *)
(***************************************************************************)
clear_cache ==
    /\ processed_events' = {}
    /\ processing_tasks' = [k \in {} |-> 0]
    /\ sent_responses' = [k \in {} |-> 0]
    /\ UNCHANGED << tasks, now, last_delivery >>

\* time.time() advances.
Tick ==
    /\ now < MaxTime
    /\ now' = now + 1
    /\ UNCHANGED << processed_events, processing_tasks, sent_responses, tasks,
                    last_delivery >>

\* The bound on the tasks of a behaviour: a webhook that would start one
\* more task than `limit` is not delivered (one the handler drops always is).
Admitted(event, limit) ==
    \/ Len(tasks) < limit
    \/ IsDuplicateEvent(processed_events, create_event_key(event))
    \/ IsAlreadyProcessing(processing_tasks, create_event_key(event))

(***************************************************************************)
(* Spec: every webhook, every outcome of the upstream call and of the       *)
(* Slack calls, and /clear-cache, with at most MaxRuns tasks, all inside    *)
(* one tick of the clock.                                                   *)
(***************************************************************************)
Next ==
    \/ \E event \in Events :
          Admitted(event, MaxRuns) /\ handle_app_mention_events(event)
    \/ \E i \in DOMAIN tasks : Start(i)
    \/ \E i \in DOMAIN tasks : UsersInfoReturns(i)
    \/ \E i \in DOMAIN tasks, ok \in BOOLEAN : PostMessageReturns(i, ok)
    \/ \E i \in DOMAIN tasks, ok \in BOOLEAN : SayInitialReturns(i, ok)
    \/ \E i \in DOMAIN tasks, outcome \in UpstreamOutcomes :
          UpstreamReturns(i, outcome)
    \/ \E i \in DOMAIN tasks, ok \in BOOLEAN : ChatUpdateReturns(i, ok)
    \/ \E i \in DOMAIN tasks, ok \in BOOLEAN : SayFinalReturns(i, ok)
    \/ clear_cache

Spec == Init /\ [][Next]_vars

(***************************************************************************)
(* LiveSpec: Spec on a running event loop.  A task that can go on does go   *)
(* on: the loop resumes every coroutine whose await has completed, each     *)
(* Slack call returns or raises, and the upstream call ends within its      *)
(* timeout of 30 seconds.                                                   *)
(***************************************************************************)
TaskStep(i) ==
    /\ i \in DOMAIN tasks
    /\ \/ Start(i)
       \/ UsersInfoReturns(i)
       \/ \E ok \in BOOLEAN : PostMessageReturns(i, ok)
       \/ \E ok \in BOOLEAN : SayInitialReturns(i, ok)
       \/ \E outcome \in UpstreamOutcomes : UpstreamReturns(i, outcome)
       \/ \E ok \in BOOLEAN : ChatUpdateReturns(i, ok)
       \/ \E ok \in BOOLEAN : SayFinalReturns(i, ok)

LiveSpec == Spec /\ \A i \in 1..MaxRuns : WF_vars(TaskStep(i))

(***************************************************************************)
(* BurstSpec: a burst of up to MaxBurst tasks inside one tick of the clock, *)
(* while Slack and the upstream agent are healthy (every Slack call         *)
(* returns, the agent answers with success).  BurstSpecNoClear is the same  *)
(* when nobody calls POST /clear-cache.                                     *)
(***************************************************************************)
BurstSteps ==
    \/ \E event \in Events :
          Admitted(event, MaxBurst) /\ handle_app_mention_events(event)
    \/ \E i \in DOMAIN tasks : Start(i)
    \/ \E i \in DOMAIN tasks : UsersInfoReturns(i)
    \/ \E i \in DOMAIN tasks : PostMessageReturns(i, TRUE)
    \/ \E i \in DOMAIN tasks : UpstreamReturns(i, "success")
    \/ \E i \in DOMAIN tasks : ChatUpdateReturns(i, TRUE)
    \/ \E i \in DOMAIN tasks : SayFinalReturns(i, TRUE)

BurstNext == BurstSteps \/ clear_cache

BurstSpec == Init /\ [][BurstNext]_vars

BurstSpecNoClear == Init /\ [][BurstSteps]_vars

(***************************************************************************)
(* StallSpec: the burst of BurstSpecNoClear while the agent does not answer *)
(* the request of the first task (its upstream call stays pending, as it    *)
(* may for 30 seconds); the event loop goes on running the other tasks.     *)
(***************************************************************************)
\* The inbound events of StallSpec: two well-formed mentions of different
\* messages, and one without a user field.
StallEvents ==
    { [ts |-> "t1", channel |-> "C", user |-> "U", text |-> "book"],
      [ts |-> "t3", channel |-> "C", user |-> "U", text |-> "book"],
      [ts |-> "t2", channel |-> "C", user |-> Absent, text |-> "book"] }

StallStep(i) ==
    /\ i \in DOMAIN tasks
    /\ \/ Start(i)
       \/ UsersInfoReturns(i)
       \/ PostMessageReturns(i, TRUE)
       \/ i # 1 /\ UpstreamReturns(i, "success")
       \/ ChatUpdateReturns(i, TRUE)
       \/ SayFinalReturns(i, TRUE)

StallNext ==
    \/ \E event \in StallEvents :
          Admitted(event, MaxBurst) /\ handle_app_mention_events(event)
    \/ \E i \in DOMAIN tasks : StallStep(i)

StallSpec ==
    Init /\ [][StallNext]_vars /\ \A i \in 1..MaxBurst : WF_vars(StallStep(i))

(***************************************************************************)
(* ClockSpec: up to MaxClockRuns tasks while the clock advances and         *)
(* chat_postMessage is failing, so that every text goes through safe_say;   *)
(* the agent declines every request.                                        *)
(***************************************************************************)
ClockNext ==
    \/ \E event \in Events :
          Admitted(event, MaxClockRuns) /\ handle_app_mention_events(event)
    \/ \E i \in DOMAIN tasks : Start(i)
    \/ \E i \in DOMAIN tasks : UsersInfoReturns(i)
    \/ \E i \in DOMAIN tasks : PostMessageReturns(i, FALSE)
    \/ \E i \in DOMAIN tasks, ok \in BOOLEAN : SayInitialReturns(i, ok)
    \/ \E i \in DOMAIN tasks : UpstreamReturns(i, "business_error")
    \/ \E i \in DOMAIN tasks, ok \in BOOLEAN : SayFinalReturns(i, ok)
    \/ Tick

ClockSpec == Init /\ [][ClockNext]_vars

(***************************************************************************)
(* SaySpec: safe_say alone, while the clock advances.  The mentions carry   *)
(* no user field, so that every task goes from its start straight to        *)
(* safe_say with the unexpected-error text; two of them belong to the same  *)
(* message and share the response key, the third has another one.  Every    *)
(* send returns or raises.                                                  *)
(***************************************************************************)
SayEvents ==
    { [ts |-> "t2", channel |-> "C", user |-> Absent, text |-> "book"],
      [ts |-> "t2", channel |-> "C", user |-> Absent, text |-> "cancel"],
      [ts |-> "t4", channel |-> "C", user |-> Absent, text |-> "book"] }

SayNext ==
    \/ \E event \in SayEvents :
          Admitted(event, MaxSayRuns) /\ handle_app_mention_events(event)
    \/ \E i \in DOMAIN tasks : Start(i)
    \/ \E i \in DOMAIN tasks, ok \in BOOLEAN : SayFinalReturns(i, ok)
    \/ Tick

SaySpec == Init /\ [][SayNext]_vars

(***************************************************************************)
(* Properties.                                                             *)
(***************************************************************************)
Finished(i) == tasks[i].pc = "done"
InFlight(i) == tasks[i].pc # "done"
event_key_of(i) == create_event_key(tasks[i].event)

\* The places <<task, log entry>> of the new messages safe_say has sent.
Sent ==
    {p \in UNION {{<<i, n>> : n \in DOMAIN tasks[i].log} : i \in DOMAIN tasks} :
        /\ tasks[p[1]].log[p[2]].op = "say"
        /\ tasks[p[1]].log[p[2]].result = "ok"}

SentKey(p) == create_response_key(tasks[p[1]].event, tasks[p[1]].log[p[2]].text)
SentAt(p) == tasks[p[1]].log[p[2]].at

\* The task has sent `text` with a Slack call that returned.
Delivered(t, text) ==
    \E n \in DOMAIN t.log :
        /\ t.log[n].op \in {"update", "say"}
        /\ t.log[n].text = text
        /\ t.log[n].result = "ok"

\* The delivery of `text` as the final text is under way, or it was the last
\* thing the task did: a chat_update that returned, or a safe_say.
DeliveryAttempted(t, text) ==
    IF t.pc = "done"
    THEN /\ t.log # << >>
         /\ LET last == t.log[Len(t.log)]
            IN  /\ last.text = text
                /\ \/ last.op = "update" /\ last.result = "ok"
                   \/ last.op = "say"
    ELSE t.pc \in {"chat_update", "say_final"} /\ t.message = text

\* C1: once process_mention_async has finished, processing_tasks holds no
\* entry for the event key under which handle_app_mention_events recorded
\* the claim, whatever the outcome of the run.
ClaimReleased ==
    \A i \in DOMAIN tasks :
        Finished(i) => event_key_of(i) \notin DOMAIN processing_tasks

\* C2: when nobody clears the caches, an event key that has been delivered,
\* once or again (also while its run is at any await), has exactly one run,
\* and a run issues at most one upstream call (exactly one once the call
\* has been reached).
DedupCorrectness ==
    /\ \A i, j \in DOMAIN tasks : i # j => event_key_of(i) # event_key_of(j)
    /\ last_delivery.line # None =>
          Cardinality({i \in DOMAIN tasks :
                          event_key_of(i) = last_delivery.event_key}) = 1
    /\ \A i \in DOMAIN tasks :
          /\ tasks[i].calls <= 1
          /\ (tasks[i].pc = "upstream" \/ tasks[i].outcome # None)
                => tasks[i].calls = 1

\* A second delivery has been dropped while the first run awaits upstream.
DedupWitness ==
    /\ last_delivery.line \in {"DUPLICATE EVENT BLOCKED", "Already processing"}
    /\ \E i \in DOMAIN tasks :
          /\ event_key_of(i) = last_delivery.event_key
          /\ tasks[i].pc = "upstream"

\* C3: there are never two runs of process_mention_async in flight for the
\* same event key.
OneRunPerEventKey ==
    \A i, j \in DOMAIN tasks :
        (i # j /\ InFlight(i) /\ InFlight(j))
            => event_key_of(i) # event_key_of(j)

\* C4: after MAX_CACHE_SIZE + 1 distinct keys have been inserted,
\* processed_events holds exactly MAX_CACHE_SIZE / 2 keys, all among the
\* most recently inserted (without /clear-cache the keys of the tasks, in
\* order, are the keys inserted).
EvictionResult ==
    Len(tasks) = MAX_CACHE_SIZE + 1 =>
        /\ Cardinality(processed_events) = MAX_CACHE_SIZE \div 2
        /\ processed_events \subseteq
              {event_key_of(i) :
                 i \in (Len(tasks) - (MAX_CACHE_SIZE \div 2) + 1)..Len(tasks)}

\* C5: the same text for the same (channel, sender, event timestamp) is not
\* sent as a new message twice within the window: any two sends of one
\* response key are at least the window apart.
ResponseSuppression ==
    \A p, q \in Sent :
        (p # q /\ SentKey(p) = SentKey(q)) =>
            \/ SentAt(p) - SentAt(q) >= RESEND_WINDOW
            \/ SentAt(q) - SentAt(p) >= RESEND_WINDOW

\* C6: when the upstream call times out, the task goes on (nothing is
\* raised), its final text is the timeout text, its delivery is attempted
\* by chat_update or safe_say, and the task sends nothing but the
\* placeholder and the timeout text (never the generic text).
TimeoutMapping ==
    \A i \in DOMAIN tasks :
        tasks[i].outcome = "timeout" =>
            /\ ~tasks[i].raised
            /\ tasks[i].final = timeout_response
            /\ DeliveryAttempted(tasks[i], timeout_response)
            /\ \A n \in DOMAIN tasks[i].log :
                  tasks[i].log[n].text \in {initial_message, timeout_response}

\* A task whose upstream call timed out has put the timeout text on its
\* placeholder.
TimeoutWitness ==
    \E i \in DOMAIN tasks :
        /\ tasks[i].outcome = "timeout"
        /\ Finished(i)
        /\ Delivered(tasks[i], timeout_response)

\* C7: processed_events never holds more than MAX_CACHE_SIZE keys.
BoundedEventCache == Cardinality(processed_events) <= MAX_CACHE_SIZE

\* More keys than MAX_CACHE_SIZE have been inserted (and some evicted).
BoundedEventCacheWitness ==
    /\ Cardinality(DOMAIN processing_tasks) > MAX_CACHE_SIZE
    /\ Cardinality(processed_events) = MAX_CACHE_SIZE

\* What the specification classifies as TransportError.
TransportErrors == ClientErrors \cup {"non_200", "bad_json"}

\* C8 as stated: every TransportError outcome (connection refused, DNS
\* failure, non-200 status, malformed body) gets the connectivity text.
TransportErrorMapping ==
    \A i \in DOMAIN tasks :
        tasks[i].outcome \in TransportErrors
            => tasks[i].final = connect_response

\* C8 as amended: an outcome that raises aiohttp.ClientError (connection
\* refused, DNS failure, a body that is not JSON) gets the connectivity
\* text, whose delivery is attempted; a non-200 status gets the generic
\* text, and a body that cannot be decoded the unexpected-error text.
ClientErrorMapping ==
    \A i \in DOMAIN tasks :
        /\ tasks[i].outcome \in ClientErrors =>
              /\ tasks[i].final = connect_response
              /\ DeliveryAttempted(tasks[i], connect_response)
        /\ tasks[i].outcome = "non_200" => tasks[i].final = generic_response
        /\ tasks[i].outcome = "bad_json"
              => tasks[i].final = unexpected_response

\* A task whose connection was refused has delivered the connectivity text.
ClientErrorWitness ==
    \E i \in DOMAIN tasks :
        /\ tasks[i].outcome = "connection_refused"
        /\ Finished(i)
        /\ Delivered(tasks[i], connect_response)

\* The texts a task may show: the placeholder, the reply of a successful
\* answer (the "response" of the agent, or the fixed default when it has
\* none) and the four apologies.
AllowedTexts ==
    {initial_message, upstream_reply, default_reply} \cup ApologyTexts

\* C9: a business error (200, success false) gets the generic text, and
\* every text a task sends, or is about to send, is an allowed text: never
\* the error string of the agent nor the message of an exception.
NoRawErrorDetail ==
    \A i \in DOMAIN tasks :
        /\ tasks[i].outcome = "business_error"
              => tasks[i].final = generic_response
        /\ tasks[i].message \in AllowedTexts \cup {None}
        /\ \A n \in DOMAIN tasks[i].log :
              /\ tasks[i].log[n].text \in AllowedTexts
              /\ tasks[i].log[n].text \notin {upstream_error, exception_text}

\* A task whose request the agent declined has delivered the generic text.
NoRawErrorDetailWitness ==
    \E i \in DOMAIN tasks :
        /\ tasks[i].outcome = "business_error"
        /\ Finished(i)
        /\ Delivered(tasks[i], generic_response)

\* C10: when a step of the task raises an unexpected exception, the final
\* text is the unexpected-error text and its delivery is attempted before
\* the task ends: by chat_update when there is a placeholder, by safe_say
\* when there is none or when chat_update fails.
InternalFaultHandled ==
    \A i \in DOMAIN tasks :
        tasks[i].raised =>
            /\ tasks[i].final = unexpected_response
            /\ DeliveryAttempted(tasks[i], unexpected_response)
            /\ tasks[i].initial_message_ts # None =>
                  \/ tasks[i].pc = "chat_update"
                  \/ \E n \in DOMAIN tasks[i].log :
                        /\ tasks[i].log[n].op = "update"
                        /\ tasks[i].log[n].text = unexpected_response
            /\ \A n \in DOMAIN tasks[i].log :
                  (tasks[i].log[n].op = "update"
                      /\ tasks[i].log[n].result = "failed") =>
                        \/ tasks[i].pc = "say_final" /\ n = Len(tasks[i].log)
                        \/ /\ n < Len(tasks[i].log)
                           /\ tasks[i].log[n + 1].op = "say"
                           /\ tasks[i].log[n + 1].text = unexpected_response

\* A JSON body that cannot be decoded raised after the placeholder was
\* posted; chat_update failed and the text was sent as a new message.
InternalFaultWitness ==
    \E i \in DOMAIN tasks :
        /\ tasks[i].raised
        /\ Finished(i)
        /\ tasks[i].initial_message_ts # None
        /\ \E n \in DOMAIN tasks[i].log :
              /\ tasks[i].log[n].op = "update"
              /\ tasks[i].log[n].result = "failed"
        /\ Delivered(tasks[i], unexpected_response)

\* The run of the happy path: the placeholder was posted, the agent answered
\* with success and a text, and the edit of the placeholder returned.
HappyPath(t) ==
    /\ t.pc = "done"
    /\ t.initial_message_ts # None
    /\ t.outcome = "success"
    /\ t.log[Len(t.log)].op = "update"
    /\ t.log[Len(t.log)].result = "ok"

\* C11: on the happy path the task has posted the placeholder, then called
\* the agent once, then edited the placeholder to exactly the text of the
\* agent, and has sent no other message; in every task the upstream call
\* comes after the post of the placeholder, and every edit after the
\* upstream call has ended.
AckThenUpdate ==
    \A i \in DOMAIN tasks :
        /\ HappyPath(tasks[i]) =>
              /\ tasks[i].calls = 1
              /\ tasks[i].log =
                    << [op |-> "post", text |-> initial_message,
                        result |-> "ok", at |-> 0],
                       [op |-> "update", text |-> upstream_reply,
                        result |-> "ok", at |-> 0] >>
        /\ tasks[i].calls > 0 =>
              /\ tasks[i].log # << >>
              /\ tasks[i].log[1].op = "post"
        /\ \A n \in DOMAIN tasks[i].log :
              tasks[i].log[n].op = "update"
                  => tasks[i].calls = 1 /\ tasks[i].outcome # None /\ n > 1
        /\ tasks[i].pc = "upstream" =>
              \A n \in DOMAIN tasks[i].log : tasks[i].log[n].op # "update"

\* A task has gone through the happy path.
AckThenUpdateWitness ==
    \E i \in DOMAIN tasks : HappyPath(tasks[i])

\* The awaits of process_mention_async in the order of the code.
Rank(pc) ==
    CASE pc = "created"          -> 0
      [] pc = "users_info"       -> 1
      [] pc = "chat_postMessage" -> 2
      [] pc = "say_initial"      -> 3
      [] pc = "upstream"         -> 4
      [] pc = "chat_update"      -> 5
      [] pc = "say_final"        -> 6
      [] pc = "done"             -> 7

\* C12: every started task eventually is done, and every step of a task
\* takes it to a later await of the code (no cycle, no step twice; a task
\* that is done does nothing more).
Termination ==
    /\ \A i \in 1..MaxRuns :
          (i \in DOMAIN tasks) ~> (i \in DOMAIN tasks /\ Finished(i))
    /\ [][\A i \in DOMAIN tasks :
              tasks'[i] # tasks[i]
                  => Rank(tasks'[i].pc) > Rank(tasks[i].pc)]_vars

\* A task is done after its upstream call has ended.
TerminationWitness ==
    \E i \in DOMAIN tasks : Finished(i) /\ tasks[i].outcome # None

\* The log entries of the deliveries of a final text that went through: an
\* edit of the placeholder, or a new message other than the placeholder.
FinalDeliveries(t) ==
    {n \in DOMAIN t.log :
        /\ t.log[n].result = "ok"
        /\ \/ t.log[n].op = "update"
           \/ t.log[n].op = "say" /\ t.log[n].text # initial_message}

\* No send of a final text as a new message has failed or was suppressed.
SendSucceeds(t) ==
    \A n \in DOMAIN t.log :
        (t.log[n].op = "say" /\ t.log[n].text # initial_message)
            => t.log[n].result = "ok"

\* C13: a task never delivers a final text twice, and a task that is done
\* and whose new-message send (if any) went through has delivered its final
\* text exactly once, whatever the upstream outcome and whether or not the
\* post of the placeholder and the edit failed.
ExactlyOneFinal ==
    \A i \in DOMAIN tasks :
        /\ Cardinality(FinalDeliveries(tasks[i])) <= 1
        /\ \A n \in FinalDeliveries(tasks[i]) :
              tasks[i].log[n].text = tasks[i].final
        /\ (Finished(i) /\ SendSucceeds(tasks[i]))
              => Cardinality(FinalDeliveries(tasks[i])) = 1

\* The post of the placeholder failed, the agent declined, and the generic
\* text went out once, as a new message.
ExactlyOneFinalWitness ==
    \E i \in DOMAIN tasks :
        /\ Finished(i)
        /\ tasks[i].initial_message_ts = None
        /\ tasks[i].outcome = "business_error"
        /\ FinalDeliveries(tasks[i]) = {Len(tasks[i].log)}
        /\ tasks[i].log[Len(tasks[i].log)].op = "say"

\* C14: once a task has delivered its final text, by an edit of the
\* placeholder or by a new message, sent_responses holds the response key
\* of that text, stamped with a time no later than now.
FinalRecorded ==
    \A i \in DOMAIN tasks :
        (Finished(i) /\ FinalDeliveries(tasks[i]) # {}) =>
            LET response_key ==
                    create_response_key(tasks[i].event, tasks[i].final)
            IN  /\ response_key \in DOMAIN sent_responses
                /\ sent_responses[response_key] <= now

\* The post of the placeholder has failed.
PlaceholderFailed(t) ==
    /\ t.log # << >>
    /\ t.log[1].op = "post"
    /\ t.log[1].result = "failed"

\* C15 as stated: when the post of the placeholder has failed there is no
\* handle, the upstream call is made, nothing is edited, and the only
\* message the task sends, or tries to send, is the final text.
OnlyFinalAfterPlaceholderFailure ==
    \A i \in DOMAIN tasks :
        PlaceholderFailed(tasks[i]) =>
            /\ tasks[i].initial_message_ts = None
            /\ Rank(tasks[i].pc) >= Rank("upstream") => tasks[i].calls = 1
            /\ tasks[i].pc # "chat_update"
            /\ tasks[i].pc # "say_initial"
            /\ \A n \in DOMAIN tasks[i].log :
                  /\ tasks[i].log[n].op # "update"
                  /\ tasks[i].log[n].op = "say"
                        => tasks[i].log[n].text = tasks[i].final

\* C15 as amended: when the post of the placeholder has failed there is no
\* handle; the placeholder goes once through safe_say as a new message;
\* then the upstream call is made; nothing is edited; and the final text
\* goes through safe_say as a new message, the last thing the task does.
PlaceholderFailureFallback ==
    \A i \in DOMAIN tasks :
        PlaceholderFailed(tasks[i]) =>
            /\ tasks[i].initial_message_ts = None
            /\ \/ tasks[i].pc = "say_initial"
                     /\ tasks[i].message = initial_message
                     /\ Len(tasks[i].log) = 1
               \/ /\ Len(tasks[i].log) >= 2
                  /\ tasks[i].log[2].op = "say"
                  /\ tasks[i].log[2].text = initial_message
            /\ Rank(tasks[i].pc) >= Rank("upstream") => tasks[i].calls = 1
            /\ tasks[i].pc # "chat_update"
            /\ \A n \in DOMAIN tasks[i].log : tasks[i].log[n].op # "update"
            /\ tasks[i].pc = "say_final" =>
                  tasks[i].message = tasks[i].final /\ Len(tasks[i].log) = 2
            /\ Finished(i) =>
                  /\ Len(tasks[i].log) = 3
                  /\ tasks[i].log[3].op = "say"
                  /\ tasks[i].log[3].text = tasks[i].final
                  /\ tasks[i].final # None

\* The post failed, the placeholder and then the text of the agent were
\* sent as new messages.
PlaceholderFailureWitness ==
    \E i \in DOMAIN tasks :
        /\ PlaceholderFailed(tasks[i])
        /\ Finished(i)
        /\ tasks[i].outcome = "success"
        /\ tasks[i].log[2].result = "ok"
        /\ tasks[i].log[3].result = "ok"
        /\ tasks[i].log[3].text = upstream_reply

\* C16: whatever the outcome, a task that holds the handle of its
\* placeholder delivers its final text by an edit of the placeholder (the
\* first thing it does after the post), and an edit that failed is followed
\* by safe_say of the same text as a new message.
EditFailureFallback ==
    \A i \in DOMAIN tasks :
        (tasks[i].initial_message_ts # None /\ tasks[i].final # None) =>
            /\ \/ /\ tasks[i].pc = "chat_update"
                  /\ tasks[i].message = tasks[i].final
                  /\ Len(tasks[i].log) = 1
               \/ /\ Len(tasks[i].log) >= 2
                  /\ tasks[i].log[2].op = "update"
                  /\ tasks[i].log[2].text = tasks[i].final
            /\ \A n \in DOMAIN tasks[i].log :
                  (tasks[i].log[n].op = "update"
                      /\ tasks[i].log[n].result = "failed") =>
                        \/ /\ tasks[i].pc = "say_final"
                           /\ tasks[i].message = tasks[i].log[n].text
                           /\ n = Len(tasks[i].log)
                        \/ /\ n < Len(tasks[i].log)
                           /\ tasks[i].log[n + 1].op = "say"
                           /\ tasks[i].log[n + 1].text = tasks[i].log[n].text
            /\ \A n \in DOMAIN tasks[i].log :
                  (tasks[i].log[n].op = "update"
                      /\ tasks[i].log[n].result = "ok") =>
                        Finished(i) /\ n = Len(tasks[i].log)

\* The upstream call timed out, the edit of the placeholder failed and the
\* timeout text was sent as a new message.
EditFailureWitness ==
    \E i \in DOMAIN tasks :
        /\ Finished(i)
        /\ tasks[i].outcome = "timeout"
        /\ Len(tasks[i].log) = 3
        /\ tasks[i].log[2].op = "update"
        /\ tasks[i].log[2].result = "failed"
        /\ tasks[i].log[3] = [op |-> "say", text |-> timeout_response,
                              result |-> "ok", at |-> 0]

\* The step is a webhook delivery of an event with the key event_key (the
\* handler prints a line about every delivery).
IsDeliveryOf(event_key) ==
    /\ last_delivery' # last_delivery
    /\ last_delivery'.event_key = event_key

\* C17: a redelivery of an event key whose run has finished is dropped
\* while the key is in processed_events, and starts a new run once the key
\* has been evicted from it.
RedeliveryAfterRun ==
    [][\A i \in DOMAIN tasks :
          (/\ IsDeliveryOf(event_key_of(i))
           /\ \A j \in DOMAIN tasks :
                 event_key_of(j) = event_key_of(i) => Finished(j))
          => IF event_key_of(i) \in processed_events
             THEN tasks' = tasks
             ELSE /\ Len(tasks') = Len(tasks) + 1
                  /\ create_event_key(tasks'[Len(tasks')].event)
                        = event_key_of(i)]_vars

\* The lines the handler prints when it drops a delivery.
DropLines == {"DUPLICATE EVENT BLOCKED", "Already processing"}

\* C18: a delivery whose key is in processed_events or is claimed in
\* processing_tasks is dropped, and the step changes nothing else:
\* processed_events, processing_tasks with its tokens, sent_responses and
\* the tasks (no new run, no Slack call, no upstream call) stay as they are.
RejectedDeliveryFrame ==
    [][last_delivery' # last_delivery =>
          IF \/ last_delivery'.event_key \in processed_events
             \/ last_delivery'.event_key \in DOMAIN processing_tasks
          THEN /\ last_delivery'.line \in DropLines
               /\ UNCHANGED << processed_events, processing_tasks,
                               sent_responses, tasks, now >>
          ELSE last_delivery'.line = "Processing new event"]_vars

\* A delivery was dropped because its key is claimed, after the key had
\* left processed_events; the claim still carries the token of its task.
RejectedDeliveryWitness ==
    /\ last_delivery.line = "Already processing"
    /\ last_delivery.event_key \notin processed_events
    /\ \E i \in DOMAIN tasks :
          /\ event_key_of(i) = last_delivery.event_key
          /\ processing_tasks[last_delivery.event_key] = tasks[i].request_id

\* The awaits of say_func inside safe_say.
SayPcs == {"say_initial", "say_final"}

\* C19: no message is sent again while now - sentAt < RESPONSE_CACHE_TTL,
\* sentAt being the time sent_responses holds for its response key: a task
\* starts to send a text only when the key has no entry or one that is at
\* least RESPONSE_CACHE_TTL old.
ResponseCooldownTTL ==
    [][\A i \in DOMAIN tasks :
          (tasks[i].pc \notin SayPcs /\ tasks'[i].pc \in SayPcs) =>
              LET response_key ==
                      create_response_key(tasks[i].event, tasks'[i].message)
              IN  response_key \in DOMAIN sent_responses
                     => now - sent_responses[response_key]
                            >= RESPONSE_CACHE_TTL]_vars

\* The two events carry the same timestamp and the same channel.
SameTsAndChannel(e1, e2) ==
    /\ get(e1, "ts") = get(e2, "ts")
    /\ get(e1, "channel") = get(e2, "channel")

\* C20: two deliveries with the same timestamp and channel derive the same
\* event key and are treated as one event: when nobody clears the caches
\* they never have two runs.
EventKeyIdentity ==
    \A i, j \in DOMAIN tasks :
        SameTsAndChannel(tasks[i].event, tasks[j].event) =>
            /\ event_key_of(i) = event_key_of(j)
            /\ i = j

\* The handler can accept a delivery: some event has a key that is neither
\* in processed_events nor claimed.
CanAccept ==
    \E event \in StallEvents :
        /\ ~IsDuplicateEvent(processed_events, create_event_key(event))
        /\ ~IsAlreadyProcessing(processing_tasks, create_event_key(event))

\* C21: the handler step of an accepted event ends with the task created
\* and nothing of it run (no upstream call awaited), leaving the other
\* tasks as they are; while the first task waits for the agent, a delivery
\* of another event key is accepted, and every other task goes through its
\* placeholder, its upstream call and its delivery to the end.
NoHeadOfLineBlocking ==
    /\ [][Len(tasks') > Len(tasks) =>
              /\ tasks'[Len(tasks')].pc = "created"
              /\ tasks'[Len(tasks')].calls = 0
              /\ tasks'[Len(tasks')].log = << >>
              /\ \A i \in DOMAIN tasks : tasks'[i] = tasks[i]]_vars
    /\ [](CanAccept =>
             ENABLED (\E event \in StallEvents :
                         /\ handle_app_mention_events(event)
                         /\ Len(tasks') > Len(tasks)))
    /\ \A i \in 2..MaxBurst :
          (i \in DOMAIN tasks) ~> (i \in DOMAIN tasks /\ Finished(i))

\* The first task still waits for the agent while a later one has posted
\* its placeholder, got its answer, edited the placeholder to the text of
\* the agent and is done.
NoHeadOfLineBlockingWitness ==
    /\ Len(tasks) >= 2
    /\ tasks[1].pc = "upstream"
    /\ \E i \in DOMAIN tasks : i # 1 /\ HappyPath(tasks[i])

\* C22: the key inserted by the handler step that accepts an event is in
\* processed_events when the step ends, also when that step runs the
\* cleanup, so that an immediate redelivery is dropped as a duplicate.
NewKeySurvives ==
    [][Len(tasks') > Len(tasks) =>
          create_event_key(tasks'[Len(tasks')].event)
              \in processed_events']_vars

\* The step appends to the log of task i a safe_say that did not send:
\* say_func raised, or the duplicate check suppressed it.
SayNotSent(i) ==
    /\ Len(tasks'[i].log) = Len(tasks[i].log) + 1
    /\ tasks'[i].log[Len(tasks'[i].log)].op = "say"
    /\ tasks'[i].log[Len(tasks'[i].log)].result \in {"failed", "blocked"}

\* C23: a safe_say whose send raised, or that was suppressed, leaves
\* sent_responses as it is (no new entry, no new time for the key); so
\* every entry of sent_responses is the key and the time of a send that
\* went through.
FailedSendNotRecorded ==
    /\ [][\A i \in DOMAIN tasks :
              SayNotSent(i) => sent_responses' = sent_responses]_vars
    /\ [](\A response_key \in DOMAIN sent_responses :
              \E p \in Sent :
                  /\ SentKey(p) = response_key
                  /\ SentAt(p) = sent_responses[response_key])

\* One send has raised, another was suppressed by the entry of an earlier
\* send, and that entry still carries the time of the earlier send.
FailedSendWitness ==
    \E i, j, k \in DOMAIN tasks :
        /\ tasks[i].log # << >> /\ tasks[i].log[1].result = "failed"
        /\ tasks[j].log # << >> /\ tasks[j].log[1].result = "blocked"
        /\ tasks[k].log # << >> /\ tasks[k].log[1].result = "ok"
        /\ create_response_key(tasks[j].event, tasks[j].final)
              \in DOMAIN sent_responses
        /\ sent_responses[create_response_key(tasks[j].event, tasks[j].final)]
              = tasks[k].log[1].at

\* C24: sent_responses changes only when a send of safe_say has returned;
\* the step records the key with the time safe_say read before the send,
\* and only when the cache then holds more than CLEAN_THRESHOLD entries it
\* removes exactly the entries older than RESPONSE_CACHE_TTL; an entry
\* younger than the window that suppresses a send is never removed.
CleanupExact ==
    [][sent_responses' # sent_responses =>
          \E i \in DOMAIN tasks :
              /\ tasks[i].pc \in SayPcs
              /\ tasks'[i].pc \notin SayPcs
              /\ tasks'[i].log[Len(tasks'[i].log)].result = "ok"
              /\ LET response_key ==
                         create_response_key(tasks[i].event, tasks[i].message)
                     keys == DOMAIN sent_responses \cup {response_key}
                     cleaned == Cardinality(keys) > CLEAN_THRESHOLD
                     stamp(key) == IF key = response_key THEN tasks[i].t0
                                   ELSE sent_responses[key]
                 IN  /\ DOMAIN sent_responses' =
                            {key \in keys :
                                cleaned =>
                                    now - stamp(key) <= RESPONSE_CACHE_TTL}
                     /\ \A key \in DOMAIN sent_responses' :
                            sent_responses'[key] = stamp(key)
                     /\ \A key \in keys :
                            now - stamp(key) < RESEND_WINDOW
                                => key \in DOMAIN sent_responses']_vars

\* The cleanup has removed the entry of an old send and has kept the entry
\* of the send that ran it.
CleanupWitness ==
    \E p, q \in Sent :
        /\ SentKey(p) \notin DOMAIN sent_responses
        /\ SentKey(q) \in DOMAIN sent_responses
        /\ SentAt(q) - SentAt(p) > RESPONSE_CACHE_TTL

====
